---- MODULE Spec2Model ----
(***************************************************************************)
(* Model of the BoardgameGeek metadata source plugin (bggeek_source.py):   *)
(* the field extractors, id_from_url, identify_results_keygen and the      *)
(* identify orchestration (_search_title, _get_metadata_from_thing_api).   *)
(*                                                                         *)
(* Strings that the code parses (year values, series codes, URL paths) are *)
(* sequences of characters or path atoms.  An optional value (a tag that   *)
(* soup.find may not find) is a sequence of length 0 or 1.                 *)
(***************************************************************************)
EXTENDS Integers, Sequences, FiniteSets, TLC

VARIABLES
    pc,            \* "idle", "search", "thing", "done", "raised", "returned"
    args,          \* the arguments of the identify call
    abort,         \* the caller's abort flag
    requests,      \* the remote requests issued so far, in order
    search_soup,   \* the parsed search response, once received
    items,         \* the items selected from the search response
    lookups,       \* the detail lookups that have ended, in order
    result_queue,  \* the caller's result queue
    call           \* the last call of a helper (extractor, parser, keygen)

vars == <<pc, args, abort, requests, search_soup, items, lookups, result_queue, call>>

(***************************************************************************)
(* Bounds                                                                  *)
(***************************************************************************)
MaxItems == 3          \* items in one search response
MaxStrLen == 5         \* characters in a year value / series code
MaxPathLen == 6        \* atoms in a URL path
MaxRank == 5           \* largest relevance of a record handed to the keygen

(***************************************************************************)
(* Module constants                                                        *)
(***************************************************************************)
_ID_TYPE == "bggeek"
SearchKind == "rpgitem"
ThingKind == "boardgameexpansion"
MAXYEAR == 9999

None == <<>>
Some(v) == <<v>>

Min(S) == CHOOSE m \in S : \A n \in S : m <= n
Max(S) == CHOOSE m \in S : \A n \in S : n <= m

SeqsUpTo(S, n) == UNION {[1..k -> S] : k \in 0..n}

(***************************************************************************)
(* Characters and int()                                                    *)
(***************************************************************************)
Chars == {"0", "2", "4", "-", "b"}

IsDigit(c) == c \in {"0", "2", "4"}

DigitVal(c) == CASE c = "0" -> 0 [] c = "2" -> 2 [] c = "4" -> 4

RECURSIVE Decimal(_)
Decimal(s) ==
    IF s = <<>> THEN 0
    ELSE 10 * Decimal(SubSeq(s, 1, Len(s) - 1)) + DigitVal(s[Len(s)])

AllDigits(s) == \A k \in 1..Len(s) : IsDigit(s[k])

\* int(str): an optional sign, then one or more digits; anything else is a
\* ValueError.
ParseInt(s) ==
    LET neg  == s # <<>> /\ s[1] = "-"
        body == IF neg THEN Tail(s) ELSE s
    IN  IF body # <<>> /\ AllDigits(body)
        THEN [ok |-> TRUE, val |-> IF neg THEN 0 - Decimal(body) ELSE Decimal(body)]
        ELSE [ok |-> FALSE, val |-> 0]

(***************************************************************************)
(* Field extractors                                                        *)
(***************************************************************************)
PubNone == [tag |-> "None", year |-> 0]
PubRaise == [tag |-> "ValueError", year |-> 0]

_get_pub_date(soup) ==
    IF soup.yearpublished = None THEN PubNone
    ELSE LET p == ParseInt(soup.yearpublished[1])
         IN  IF ~p.ok THEN PubRaise
             ELSE IF p.val <= 0 THEN PubNone
             ELSE IF p.val > MAXYEAR THEN PubRaise
             ELSE [tag |-> "datetime", year |-> p.val]

_get_publisher(soup) == soup.rpgpublisher

\* re.search(r"(\d+)\D*$", s): the ends q of group 1 when the match starts at p
MatchEnds(s, p) ==
    {q \in p..Len(s) : /\ \A k \in p..q : IsDigit(s[k])
                       /\ \A k \in (q + 1)..Len(s) : ~IsDigit(s[k])}

\* leftmost start, greedy group; <<>> when there is no match
ReSearch(s) ==
    LET starts == {p \in 1..Len(s) : MatchEnds(s, p) # {}}
    IN  IF starts = {} THEN None
        ELSE LET p == Min(starts)
             IN  Some(SubSeq(s, p, Max(MatchEnds(s, p))))

SeriesIndex(series_code) ==
    LET match == ReSearch(series_code)
    IN  IF match # None THEN Decimal(match[1]) ELSE 0

_get_series(soup) ==
    [series |-> IF soup.rpgseries # None THEN soup.rpgseries[1] ELSE "",
     index  |-> IF soup.seriescode # None THEN SeriesIndex(soup.seriescode[1]) ELSE 0]

_get_comments(soup) == soup.description

(***************************************************************************)
(* id_from_url                                                             *)
(***************************************************************************)
Hosts == {"rpggeek.com", "boardgamegeek.com", "videogamegeek.com", "example.com"}
Ports == {None, Some("443")}
PathAtoms == {"/", "boardgame", "notboardgame", "4098", "item-name"}

Urls == [host : Hosts, port : Ports, path : SeqsUpTo(PathAtoms, MaxPathLen)]

\* urlparse(url).netloc: the host, and ":port" when the URL names a port
Netloc(url) ==
    IF url.port = None THEN <<url.host>> ELSE <<url.host, ":", url.port[1]>>

RECURSIVE LStrip(_)
LStrip(p) == IF p # <<>> /\ p[1] = "/" THEN LStrip(Tail(p)) ELSE p

RECURSIVE RStrip(_)
RStrip(p) ==
    IF p # <<>> /\ p[Len(p)] = "/" THEN RStrip(SubSeq(p, 1, Len(p) - 1)) ELSE p

Strip(p) == RStrip(LStrip(p))

\* str.split("/"): always at least one (possibly empty) part
RECURSIVE Split(_)
Split(p) ==
    LET seps == {k \in 1..Len(p) : p[k] = "/"}
    IN  IF seps = {} THEN <<p>>
        ELSE LET k == Min(seps)
             IN  <<SubSeq(p, 1, k - 1)>> \o Split(SubSeq(p, k + 1, Len(p)))

\* id_from_url splitting the path without stripping the slashes first
id_from_url_no_strip(url) ==
    IF Netloc(url) \notin {<<"rpggeek.com">>, <<"boardgamegeek.com">>,
                           <<"videogamegeek.com">>}
    THEN None
    ELSE LET path_parts == Split(url.path)
         IN  IF Len(path_parts) < 2 \/ path_parts[1] # <<"boardgame">>
             THEN None
             ELSE Some(<<_ID_TYPE, path_parts[2]>>)

id_from_url(url) ==
    IF Netloc(url) \notin {<<"rpggeek.com">>, <<"boardgamegeek.com">>,
                           <<"videogamegeek.com">>}
    THEN None
    ELSE LET path_parts == Split(Strip(url.path))
         IN  IF Len(path_parts) < 2 \/ path_parts[1] # <<"boardgame">>
             THEN None
             ELSE Some(<<_ID_TYPE, path_parts[2]>>)

(***************************************************************************)
(* identify_results_keygen                                                 *)
(***************************************************************************)
_KeyGen(metadata) == [relevance |-> metadata.source_relevance]

KeyEq(self, other) == self.relevance = other.relevance
KeyNe(self, other) == self.relevance # other.relevance
\* __lt__ written with the comparison of __le__
KeyLt_as_le(self, other) == self.relevance <= other.relevance

KeyLt(self, other) == self.relevance < other.relevance
KeyLe(self, other) == self.relevance <= other.relevance
KeyGt(self, other) == self.relevance > other.relevance
KeyGe(self, other) == self.relevance >= other.relevance

\* the six comparisons of keygen(a) with keygen(b); the title, authors and
\* identifiers arguments of identify_results_keygen are defaulted and dropped
identify_results_keygen(title, authors, identifiers, a, b) ==
    LET ka == _KeyGen(a)
        kb == _KeyGen(b)
    IN  [eq |-> KeyEq(ka, kb), ne |-> KeyNe(ka, kb), lt |-> KeyLt(ka, kb),
         le |-> KeyLe(ka, kb), gt |-> KeyGt(ka, kb), ge |-> KeyGe(ka, kb)]

(***************************************************************************)
(* Remote responses                                                        *)
(***************************************************************************)
Ids == {"4098", "13"}
Titles == {None, Some("catan")}
Timeouts == {30, 5}

\* what the caller may pass under identifiers["bggeek"]: no entry, an empty
\* value, or an id
IdentifierValues == {None, Some("")} \cup {Some(id) : id \in Ids}

SearchItems == [id : Ids, type : {SearchKind, ThingKind}]
SearchResponses == SeqsUpTo(SearchItems, MaxItems)

FullSoup ==
    [kind |-> ThingKind, name |-> Some("Catan"), rpgdesigner |-> <<"Teuber">>,
     yearpublished |-> Some(<<"2", "0", "2", "4">>), rpgpublisher |-> Some("Kosmos"),
     rpgseries |-> Some("Catan"), seriescode |-> Some(<<"-", "0", "4", "2", "b">>),
     description |-> Some("text")]

BareSoup ==
    [kind |-> ThingKind, name |-> Some("Catan"), rpgdesigner |-> <<>>,
     yearpublished |-> None, rpgpublisher |-> None,
     rpgseries |-> None, seriescode |-> None, description |-> None]

\* the documents the thing API may answer with
ThingResponses ==
    {FullSoup,
     BareSoup,
     [BareSoup EXCEPT !.name = Some("")],
     [BareSoup EXCEPT !.name = None],
     [FullSoup EXCEPT !.yearpublished = Some(<<"b">>)],
     [FullSoup EXCEPT !.yearpublished = Some(<<"0">>)],
     [FullSoup EXCEPT !.kind = SearchKind],
     [BareSoup EXCEPT !.kind = "boardgame"]}

(***************************************************************************)
(* _get_metadata_from_thing_api                                            *)
(***************************************************************************)
\* "skipped": early return; "raised": an exception leaves the function;
\* "record": a Metadata is built and put on the queue
ThingOutcome(soup) ==
    IF soup.kind # ThingKind THEN "skipped"
    ELSE IF soup.name = None THEN "raised"
    ELSE IF _get_pub_date(soup).tag = "ValueError" THEN "raised"
    ELSE "record"

BuildMetadata(bggeek_id, relevance, soup) ==
    [title |-> soup.name[1],
     authors |-> soup.rpgdesigner,
     identifier |-> <<_ID_TYPE, bggeek_id>>,
     pubdate |-> _get_pub_date(soup),
     publisher |-> _get_publisher(soup),
     series |-> _get_series(soup).series,
     comments |-> _get_comments(soup),
     series_index |-> _get_series(soup).index,
     source |-> "BoardgameGeek",
     source_relevance |-> relevance]

\* a put that drops a record whose identifier is already queued
Put_dedup(queue, metadata) ==
    IF \E k \in 1..Len(queue) : queue[k].identifier = metadata.identifier
    THEN queue
    ELSE Append(queue, metadata)

Put(queue, metadata) == Append(queue, metadata)

ThingRequest(bggeek_id, relevance) ==
    [api |-> "thing", arg |-> Some(bggeek_id), relevance |-> relevance]

SearchRequest(title) == [api |-> "search", arg |-> title, relevance |-> 0]

(***************************************************************************)
(* _search_title and identify                                              *)
(***************************************************************************)
Truthy(value) == value # None /\ value[1] # ""

\* identify with the identifier used only when no title was given
identify_title_first(title, bggeek_id) ==
    IF Truthy(bggeek_id) /\ title = None
    THEN ThingRequest(bggeek_id[1], 0)
    ELSE SearchRequest(title)

\* the first remote request of identify
identify(title, bggeek_id) ==
    IF Truthy(bggeek_id) THEN ThingRequest(bggeek_id[1], 0) ELSE SearchRequest(title)

IsSearchKind(item) == item.type = SearchKind

\* soup.find_all("item", attrs={"type": ...})
FindItems(response) == SelectSeq(response, IsSearchKind)

\* every candidate given the relevance of the first
Relevance_first(k) == 0

\* enumerate(items): the relevance of the k-th selected item (k from 1)
Relevance(k) == k - 1

NoCall == [fn |-> "none"]

Init ==
    /\ pc = "idle"
    /\ args = [title |-> None, bggeek |-> None, timeout |-> 30]
    /\ abort = FALSE
    /\ requests = <<>>
    /\ search_soup = None
    /\ items = <<>>
    /\ lookups = <<>>
    /\ result_queue = <<>>
    /\ call = NoCall

Identify ==
    /\ pc = "idle"
    /\ \E title \in Titles, bggeek_id \in IdentifierValues,
          timeout \in Timeouts, flag \in BOOLEAN :
        LET first == identify(title, bggeek_id)
        IN  /\ args' = [title |-> title, bggeek |-> bggeek_id, timeout |-> timeout]
            /\ abort' = flag
            /\ requests' = <<first>>
            /\ pc' = first.api
    /\ UNCHANGED <<search_soup, items, lookups, result_queue, call>>

SearchFail ==
    /\ pc = "search"
    /\ pc' = "raised"
    /\ UNCHANGED <<args, abort, requests, search_soup, items, lookups, result_queue, call>>

SearchResponse ==
    /\ pc = "search"
    /\ \E response \in SearchResponses :
        LET found == FindItems(response)
        IN  /\ search_soup' = Some(response)
            /\ items' = found
            /\ IF found = <<>>
               THEN pc' = "done" /\ UNCHANGED requests
               ELSE /\ pc' = "thing"
                    /\ requests' = Append(requests,
                                          ThingRequest(found[1].id, Relevance(1)))
    /\ UNCHANGED <<args, abort, lookups, result_queue, call>>

\* the request that the running detail lookup was started with
Current == requests[Len(requests)]

ThingFail ==
    /\ pc = "thing"
    /\ lookups' = Append(lookups, [id |-> Current.arg[1], relevance |-> Current.relevance,
                                   soup |-> None, outcome |-> "raised"])
    /\ pc' = "raised"
    /\ UNCHANGED <<args, abort, requests, search_soup, items, result_queue, call>>

ThingResponse ==
    /\ pc = "thing"
    /\ \E response \in ThingResponses :
        LET bggeek_id == Current.arg[1]
            relevance == Current.relevance
            outcome   == ThingOutcome(response)
            next      == Len(lookups) + 2
        IN  /\ lookups' = Append(lookups, [id |-> bggeek_id, relevance |-> relevance,
                                           soup |-> Some(response), outcome |-> outcome])
            /\ result_queue' =
                   IF outcome = "record"
                   THEN Put(result_queue, BuildMetadata(bggeek_id, relevance, response))
                   ELSE result_queue
            /\ IF outcome = "raised"
               THEN pc' = "raised" /\ UNCHANGED requests
               ELSE IF requests[1].api = "search" /\ next <= Len(items)
               THEN /\ pc' = "thing"
                    /\ requests' = Append(requests,
                                          ThingRequest(items[next].id, Relevance(next)))
               ELSE pc' = "done" /\ UNCHANGED requests
    /\ UNCHANGED <<args, abort, search_soup, items, call>>

\* the caller may set its abort event while identify runs
SetAbort ==
    /\ pc \in {"search", "thing"}
    /\ ~abort
    /\ abort' = TRUE
    /\ UNCHANGED <<pc, args, requests, search_soup, items, lookups, result_queue, call>>

(***************************************************************************)
(* Calls of the helpers on their own                                       *)
(***************************************************************************)
Strings == SeqsUpTo(Chars, MaxStrLen)
OptStrings == {None} \cup {Some(s) : s \in Strings}

KeyRecords ==
    {BuildMetadata(id, r, response) :
        id \in Ids, r \in 0..MaxRank, response \in {FullSoup, BareSoup}}

CallGetPubDate ==
    /\ pc = "idle"
    /\ \E year \in OptStrings :
        call' = [fn |-> "_get_pub_date", yearpublished |-> year,
                 result |-> _get_pub_date([BareSoup EXCEPT !.yearpublished = year])]
    /\ pc' = "returned"
    /\ UNCHANGED <<args, abort, requests, search_soup, items, lookups, result_queue>>

CallGetSeries ==
    /\ pc = "idle"
    /\ \E code \in OptStrings, name \in {None, Some("Catan")} :
        call' = [fn |-> "_get_series", seriescode |-> code, rpgseries |-> name,
                 result |-> _get_series([BareSoup EXCEPT !.seriescode = code,
                                                          !.rpgseries = name])]
    /\ pc' = "returned"
    /\ UNCHANGED <<args, abort, requests, search_soup, items, lookups, result_queue>>

CallIdFromUrl ==
    /\ pc = "idle"
    /\ \E url \in Urls :
        call' = [fn |-> "id_from_url", url |-> url, result |-> id_from_url(url)]
    /\ pc' = "returned"
    /\ UNCHANGED <<args, abort, requests, search_soup, items, lookups, result_queue>>

CallKeygen ==
    /\ pc = "idle"
    /\ \E title \in Titles, identifiers \in IdentifierValues, a \in KeyRecords,
          b \in KeyRecords :
        call' = [fn |-> "keygen", title |-> title, identifiers |-> identifiers,
                 a |-> a, b |-> b,
                 result |-> identify_results_keygen(title, <<>>, identifiers, a, b)]
    /\ pc' = "returned"
    /\ UNCHANGED <<args, abort, requests, search_soup, items, lookups, result_queue>>

Next ==
    \/ Identify
    \/ SearchFail
    \/ SearchResponse
    \/ ThingFail
    \/ ThingResponse
    \/ SetAbort
    \/ CallGetPubDate
    \/ CallGetSeries
    \/ CallIdFromUrl
    \/ CallKeygen

Spec == Init /\ [][Next]_vars

(***************************************************************************)
(* Properties                                                              *)
(***************************************************************************)
TitleRun == requests # <<>> /\ requests[1].api = "search"
Ended == pc \in {"done", "raised"}
Searches == {k \in 1..Len(requests) : requests[k].api = "search"}

\* C1: when identifiers holds a non-empty value under "bggeek", the run issues
\* exactly one thing request, for that identifier with relevance 0, ends when
\* that lookup ends, and never issues a search request, whatever the title.
C1_DirectLookup ==
    (pc # "idle" /\ Truthy(args.bggeek)) =>
        /\ requests = <<[api |-> "thing", arg |-> args.bggeek, relevance |-> 0]>>
        /\ Searches = {}
        /\ Len(lookups) <= 1
        /\ Ended <=> Len(lookups) = 1

C1_Witness ==
    /\ pc = "done"
    /\ Truthy(args.bggeek)
    /\ args.title # None
    /\ Len(lookups) = 1
    /\ Len(result_queue) = 1
    /\ result_queue[1].source_relevance = 0

\* the items of the expected kind in the search response, in response order
Candidates == SelectSeq(search_soup[1], LAMBDA item : item.type = SearchKind)

\* C2: a title search makes exactly one search request and, for every item of
\* the expected kind in the response, in order, exactly one thing request for
\* its id; every queued record carries the 0-based position of its candidate.
C2_EveryCandidateLookedUp ==
    (Ended /\ TitleRun /\ search_soup # None) =>
        /\ Cardinality(Searches) = 1
        /\ Len(requests) = 1 + Len(Candidates)
        /\ \A k \in 1..Len(Candidates) :
              requests[k + 1] = [api |-> "thing", arg |-> Some(Candidates[k].id),
                                 relevance |-> k - 1]
        /\ \A q \in 1..Len(result_queue) :
              /\ result_queue[q].source_relevance + 1 \in 1..Len(Candidates)
              /\ result_queue[q].identifier[2] =
                     Candidates[result_queue[q].source_relevance + 1].id

\* C3: a fetch or parse failure in the detail lookup of one search candidate
\* does not make identify raise, and every other candidate is still looked up.
C3_FailureIsolated ==
    (TitleRun /\ \E k \in 1..Len(lookups) : lookups[k].soup = None) =>
        /\ pc # "raised"
        /\ pc = "done" => Len(lookups) = Len(items)

\* the records built by the lookups that produced one, in completion order
RECURSIVE Produced(_)
Produced(log) ==
    IF log = <<>> THEN <<>>
    ELSE LET l == log[Len(log)]
             before == Produced(SubSeq(log, 1, Len(log) - 1))
         IN  IF l.outcome = "record"
             THEN Append(before, BuildMetadata(l.id, l.relevance, l.soup[1]))
             ELSE before

\* C4: every lookup that produced a record has pushed it exactly once, when it
\* completed; the queue is never buffered, re-ordered or deduplicated, so it
\* always holds exactly the produced records in completion order.
C4_PushedExactlyOnce == result_queue = Produced(lookups)

C4_Witness ==
    /\ pc = "done"
    /\ Len(lookups) = 3
    /\ Len(result_queue) = 2
    /\ result_queue[1].identifier = result_queue[2].identifier

\* C5: a detail response of the expected kind whose primary name is missing or
\* empty pushes nothing and the lookup ends without raising; no queued record
\* has an empty title.
C5_NoTitleNoRecord ==
    /\ \A k \in 1..Len(lookups) :
          (/\ lookups[k].soup # None
           /\ lookups[k].soup[1].kind = ThingKind
           /\ ~Truthy(lookups[k].soup[1].name)) => lookups[k].outcome = "skipped"
    /\ \A q \in 1..Len(result_queue) : result_queue[q].title # ""

CatalogHosts == {"rpggeek.com", "boardgamegeek.com", "videogamegeek.com"}

\* the segments of a path, read off the positions of its slashes: the part
\* before the first inner slash and the part after it
FirstAtom(path) == Min({k \in 1..Len(path) : path[k] # "/"})
LastAtom(path) == Max({k \in 1..Len(path) : path[k] # "/"})
InnerSlashes(path) == {k \in FirstAtom(path)..LastAtom(path) : path[k] = "/"}

HasBoardgamePrefix(path) ==
    /\ \E k \in 1..Len(path) : path[k] # "/"
    /\ InnerSlashes(path) # {}
    /\ SubSeq(path, FirstAtom(path), Min(InnerSlashes(path)) - 1) = <<"boardgame">>

SecondSegment(path) ==
    LET first == Min(InnerSlashes(path))
        later == InnerSlashes(path) \ {first}
        stop  == IF later = {} THEN LastAtom(path) + 1 ELSE Min(later)
    IN  SubSeq(path, first + 1, stop - 1)

C7_KeyOrder ==
    call.fn = "keygen" =>
        LET ra == call.a.source_relevance
            rb == call.b.source_relevance
        IN  /\ call.result.lt <=> ra < rb
            /\ call.result.le <=> ra <= rb
            /\ call.result.gt <=> ra > rb
            /\ call.result.ge <=> ra >= rb
            /\ call.result.eq <=> ra = rb
            /\ call.result.ne <=> ra # rb

C7_Witness ==
    /\ call.fn = "keygen"
    /\ call.a.source_relevance = 2
    /\ call.b.source_relevance = 5
    /\ call.a.series_index > call.b.series_index
    /\ call.title # None
    /\ call.result.lt
    /\ ~call.result.eq

\* C8: a lookup whose response has no item of the expected kind is skipped
\* (no record, no error), and the kind the lookup expects is the kind the
\* search selects by: a response of the kind the search selects is not skipped.
C8_SameKind ==
    \A k \in 1..Len(lookups) :
        lookups[k].soup # None =>
            /\ lookups[k].soup[1].kind # ThingKind => lookups[k].outcome = "skipped"
            /\ (TitleRun /\ lookups[k].soup[1].kind = SearchKind) =>
                   lookups[k].outcome # "skipped"

\* C9: the extractors never raise: an absent, non-integer or non-positive year
\* gives no date and a positive year Y gives January 1 of Y; a series code
\* without a trailing digit run, or no series code, gives index 0, otherwise
\* the last digit run as an integer.
C9_ExtractorsNeverRaise ==
    /\ call.fn = "_get_pub_date" =>
          call.result =
              IF \/ call.yearpublished = None
                 \/ ~ParseInt(call.yearpublished[1]).ok
                 \/ ParseInt(call.yearpublished[1]).val <= 0
              THEN PubNone
              ELSE [tag |-> "datetime", year |-> ParseInt(call.yearpublished[1]).val]
    /\ call.fn = "_get_series" =>
          call.result.index =
              IF \/ call.seriescode = None
                 \/ \A k \in 1..Len(call.seriescode[1]) : ~IsDigit(call.seriescode[1][k])
              THEN 0
              ELSE LET code == call.seriescode[1]
                       last == Max({k \in 1..Len(code) : IsDigit(code[k])})
                       from == Min({j \in 1..last : \A k \in j..last : IsDigit(code[k])})
                   IN  Decimal(SubSeq(code, from, last))

\* C10: in a title run the lookups are dispatched one after another in response
\* order: the queued records are in strictly increasing relevance, the lookup
\* of a candidate starts only when all earlier ones have ended, and a set abort
\* flag or any timeout does not stop the run before the last candidate.
C10_Sequential ==
    /\ \A j, k \in 1..Len(result_queue) :
          j < k => result_queue[j].source_relevance < result_queue[k].source_relevance
    /\ (TitleRun /\ search_soup # None) =>
          /\ Len(requests) - 1 = Len(lookups) + (IF pc = "thing" THEN 1 ELSE 0)
          /\ \A k \in 2..Len(requests) :
                /\ requests[k].arg = Some(items[k - 1].id)
                /\ requests[k].relevance = k - 2
          /\ pc = "done" => Len(lookups) = Len(items)

C10_Witness ==
    /\ pc = "done"
    /\ TitleRun
    /\ abort
    /\ args.timeout = 5
    /\ Len(lookups) = 3
    /\ Len(result_queue) = 3

====
